---- MODULE Spec2Model ----
(***************************************************************************)
(* A model of the ldapAuth middleware (src/ldapauth.go): the per-request   *)
(* handler LdapAuth.ServeHTTP, the directory steps it calls (Connect,      *)
(* LdapCheckUser, SearchMode, ParseSearchFilter, LdapCheckUserAuthorized,  *)
(* LdapCheckAllowedUsers, LdapCheckUserGroups), the cookie session it      *)
(* reads and writes, and the shared *Config the handlers of one plugin     *)
(* instance run against.  Requests are served by concurrent goroutines;    *)
(* each action below is one stretch of ServeHTTP between two accesses to   *)
(* state that other goroutines can see.                                    *)
(***************************************************************************)
EXTENDS Integers, Sequences, FiniteSets, TLC

(***************************************************************************)
(* Bounds of the model.                                                    *)
(***************************************************************************)
\* Requests served in one behaviour.
MaxRequests == 3

\* Plugin instances constructed in one behaviour.
MaxInstances == 2

\* Requests the instances serve in one behaviour.
MaxServed == 2

\* The goroutines that serve requests concurrently.
Handlers == <<"h1", "h2">>

HandlerIds == 1..Len(Handlers)

(***************************************************************************)
(* Strings.                                                                *)
(***************************************************************************)
\* strings.ToLower on the strings of the model.
ToLower(s) ==
    CASE s = "Alice" -> "alice"
      [] s = "ALICE" -> "alice"
      [] s = "Bob" -> "bob"
      [] s = "BOB" -> "bob"
      [] s = "CN=Alice,DC=Example,DC=Org" -> "cn=alice,dc=example,dc=org"
      [] s = "cn=Alice,dc=example,dc=org" -> "cn=alice,dc=example,dc=org"
      [] OTHER -> s

\* A Go string is two words, a data pointer and a length.  The pointer is
\* modelled by the text it points to.
StringHeader(s) == [ptr |-> s, len |-> Len(s)]

\* The text a string header that may mix the words of two stores reads as.
\* The store of la.config.Username is not synchronised with the stores and
\* the reads of other requests, so a header may hold the pointer of one
\* store and the length of another.  A header whose length is not that of
\* its text (a prefix of it, or the text and the bytes behind it) is no
\* username of the directory.  The model stores the pointer first; storing
\* the length first lets a reader see the same texts (the old one, the new
\* one, or a torn one).
TornString == "<torn>"

HeaderText(w) == IF Len(w.ptr) = w.len THEN w.ptr ELSE TornString

(***************************************************************************)
(* The directory (the LDAP server the plugin talks to).                    *)
(***************************************************************************)
BaseDN == "dc=example,dc=org"

\* fmt.Sprintf("%s=%s,%s", config.Attribute, username, config.BaseDN)
BindModeDN(attribute, username, baseDN) ==
    attribute \o "=" \o username \o "," \o baseDN

\* The entries of the directory, in the order a search returns them: alice
\* and bob are one entry each, two entries carry the uid dup, nobody is eve.
DirEntries ==
    << [dn |-> "cn=alice,dc=example,dc=org", uid |-> "alice", pw |-> "pa"],
       [dn |-> "cn=bob,dc=example,dc=org", uid |-> "bob", pw |-> "pb"],
       [dn |-> "cn=dup,ou=a,dc=example,dc=org", uid |-> "dup", pw |-> "pa"],
       [dn |-> "cn=dup,ou=b,dc=example,dc=org", uid |-> "dup", pw |-> "pb"] >>

\* ldap.Entry as the plugin uses it: the DN (and the uid the filter matched).
NoEntry == [dn |-> "", uid |-> ""]

EntryOf(e) == [dn |-> e.dn, uid |-> e.uid]

\* The entries a subtree search with the rendered user filter returns.
DirMatchesFilter(e, filter) == filter = "(uid=" \o e.uid \o ")"

DirSearchUser(filter) == SelectSeq(DirEntries, LAMBDA e : DirMatchesFilter(e, filter))

\* Whether the directory accepts a simple bind of dn with password.
DirBindAccepts(dn, password) ==
    \E i \in 1..Len(DirEntries) : DirEntries[i].dn = dn /\ DirEntries[i].pw = password

\* The groups of the directory and their members (member DNs).
DirGroupMembers(g) ==
    CASE g = "cn=admins,dc=example,dc=org" -> {"cn=alice,dc=example,dc=org"}
      [] g = "cn=staff,dc=example,dc=org" -> {"cn=bob,dc=example,dc=org"}
      [] OTHER -> {}

\* The uids a group lists as memberUid.
DirGroupMemberUids(g) == IF g = "cn=staff,dc=example,dc=org" THEN {"bob"} ELSE {}

\* Whether the base-scope search of group g with the group filter
\* (|(member=dn)(uniqueMember=dn)(memberUid=username)) matches the group.
DirGroupMatches(g, dn, username) ==
    dn \in DirGroupMembers(g) \/ username \in DirGroupMemberUids(g)

(***************************************************************************)
(* Configuration.                                                          *)
(***************************************************************************)
\* config.CacheTimeout, the MaxAge of a session cookie, in seconds.
DefaultCacheTimeout == 300

SearchFilterTemplate == "(uid={{.Username}})"

\* CreateConfig: the default configuration (the fields the handler reads).
CreateConfig ==
    [ Enabled |-> TRUE,
      URL |-> "",
      StartTLS |-> FALSE,
      CacheTimeout |-> DefaultCacheTimeout,
      Attribute |-> "cn",
      SearchFilter |-> "",
      BaseDN |-> "",
      BindDN |-> "",
      BindPassword |-> "",
      ForwardUsername |-> TRUE,
      ForwardAuthorization |-> FALSE,
      ForwardExtraLdapHeaders |-> FALSE,
      AllowedGroups |-> <<>>,
      AllowedUsers |-> <<>>,
      Username |-> StringHeader("") ]

\* The deployments checked: each is CreateConfig with the fields a
\* deployment sets.
ConfigBindMode ==
    [CreateConfig EXCEPT !.URL = "ldap://ldap.example.org", !.BaseDN = BaseDN]

ConfigSearchMode ==
    [ConfigBindMode EXCEPT !.SearchFilter = SearchFilterTemplate,
                           !.BindDN = "cn=svc,dc=example,dc=org",
                           !.BindPassword = "svcpw",
                           !.AllowedUsers = <<"Bob">>,
                           !.AllowedGroups = <<"cn=staff,dc=example,dc=org",
                                               "cn=admins,dc=example,dc=org">>]

ConfigSearchAnonymous ==
    [ConfigBindMode EXCEPT !.SearchFilter = SearchFilterTemplate,
                           !.ForwardAuthorization = TRUE]

ConfigDisabled == [ConfigBindMode EXCEPT !.Enabled = FALSE]

ConfigStartTLS == [ConfigBindMode EXCEPT !.StartTLS = TRUE]

Configs ==
    {ConfigBindMode, ConfigSearchMode, ConfigSearchAnonymous, ConfigDisabled,
     ConfigStartTLS}

(***************************************************************************)
(* Requests and sessions.                                                  *)
(***************************************************************************)
\* The Authorization headers a request may carry: none, or Basic
\* credentials (username as typed, password).
NoHeader == [basic |-> FALSE, user |-> "", pass |-> ""]

BasicHeaders ==
    { [basic |-> TRUE, user |-> "Alice", pass |-> "pa"],
      [basic |-> TRUE, user |-> "alice", pass |-> "pb"],
      [basic |-> TRUE, user |-> "bob", pass |-> "pb"],
      [basic |-> TRUE, user |-> "dup", pass |-> "pa"],
      [basic |-> TRUE, user |-> "eve", pass |-> "pa"] }

Headers == {NoHeader} \cup BasicHeaders

\* req.BasicAuth(): (username, password, ok).
BasicAuth(header) ==
    IF header.basic
    THEN [username |-> header.user, password |-> header.pass, ok |-> TRUE]
    ELSE [username |-> "", password |-> "", ok |-> FALSE]

\* A session cookie: none, or one the store signed, carrying the session
\* values and the MaxAge it was sent with.
NoCookie == [kind |-> "none", authenticated |-> FALSE, username |-> "", maxAge |-> 0]

SignedCookie(authenticated, username, maxAge) ==
    [kind |-> "signed", authenticated |-> authenticated, username |-> username,
     maxAge |-> maxAge]

\* session.Values of a new session: no key is set.
EmptyValues == [set |-> FALSE, authenticated |-> FALSE, username |-> ""]

\* store.Get(req, name): the values of a cookie the store verifies, a new
\* session otherwise (the error is dropped).
StoreGet(cookie) ==
    IF cookie.kind = "signed"
    THEN [set |-> TRUE, authenticated |-> cookie.authenticated,
          username |-> cookie.username]
    ELSE EmptyValues

\* Variant: the type assertion names a type the value never has, so ok is
\* false for every session.
SessionAuthenticatedWrongType(values) == FALSE

\* if auth, ok := session.Values["authenticated"].(bool); ok && auth
SessionAuthenticated(values) == values.set /\ values.authenticated

\* session.Values["username"] == username
SessionUserMatches(values, username) == values.username = username

(***************************************************************************)
(* The session store and New.                                              *)
(***************************************************************************)
DefaultCacheKeyLabel == "LDAP_AUTH_CACHE_KEY"

\* getSecret: the secret the environment (or /run/secrets) holds for a
\* label, "" when it holds none.
getSecret(label) ==
    CASE label = DefaultCacheKeyLabel -> "secret-one"
      [] label = "SITE_B_CACHE_KEY" -> "secret-two"
      [] OTHER -> ""

\* var store *sessions.CookieStore before any New.
NoStore == [set |-> FALSE, key |-> "", maxAge |-> 0]

\* sessions.NewCookieStore with its Options.MaxAge.
NewCookieStore(key, maxAge) == [set |-> TRUE, key |-> key, maxAge |-> maxAge]

\* The cache settings of the instances constructed (the other fields are
\* those of ConfigBindMode): the default label, another label, a label the
\* environment has no secret for, and an empty CacheKey.
PluginConfigs ==
    { [CacheKey |-> "super-secret-key", CacheKeyLabel |-> DefaultCacheKeyLabel,
       CacheTimeout |-> DefaultCacheTimeout, Username |-> ""],
      [CacheKey |-> "site-b-key", CacheKeyLabel |-> "SITE_B_CACHE_KEY",
       CacheTimeout |-> 2 * DefaultCacheTimeout, Username |-> ""],
      [CacheKey |-> "site-c-key", CacheKeyLabel |-> "SITE_C_CACHE_KEY",
       CacheTimeout |-> DefaultCacheTimeout, Username |-> ""],
      [CacheKey |-> "", CacheKeyLabel |-> DefaultCacheKeyLabel,
       CacheTimeout |-> DefaultCacheTimeout, Username |-> ""] }

\* New: a non-empty CacheKey is replaced by the secret of its label; the
\* store is built from the key and CacheTimeout and assigned to the
\* package-level variable.
New(cfg) ==
    LET key == IF cfg.CacheKey # "" THEN getSecret(cfg.CacheKeyLabel) ELSE cfg.CacheKey
    IN [ config |-> [cfg EXCEPT !.CacheKey = key],
         store |-> NewCookieStore(key, cfg.CacheTimeout) ]

\* A cookie a store sealed with its key.
SealedCookie(key, authenticated, username, maxAge) ==
    [kind |-> "signed", key |-> key, authenticated |-> authenticated,
     username |-> username, maxAge |-> maxAge]

\* Cookies whose value was altered or made up: no key verifies them.
TamperedCookies ==
    { [kind |-> "tampered", key |-> "", authenticated |-> TRUE, username |-> u,
       maxAge |-> DefaultCacheTimeout] : u \in {"alice", "bob"} }

\* Whether securecookie decodes the cookie with the store's key (a store
\* with an empty hash key decodes and encodes nothing).
StoreVerifies(st, cookie) ==
    /\ cookie.kind = "signed"
    /\ st.key # ""
    /\ cookie.key = st.key

\* Variant: the values of a cookie are read without verifying it.
StoreValuesUnverified(st, cookie) ==
    IF cookie.kind \in {"signed", "tampered"}
    THEN [set |-> TRUE, authenticated |-> cookie.authenticated,
          username |-> cookie.username]
    ELSE EmptyValues

\* session, _ := store.Get(req, name): session.Values.
StoreValues(st, cookie) ==
    IF StoreVerifies(st, cookie)
    THEN [set |-> TRUE, authenticated |-> cookie.authenticated,
          username |-> cookie.username]
    ELSE EmptyValues

\* session.Save: the cookie sent (none when the store cannot encode).
StoreSave(st, authenticated, username, maxAge) ==
    IF st.key = "" THEN NoCookie
    ELSE SealedCookie(st.key, authenticated, username, maxAge)

(***************************************************************************)
(* The directory steps.  What the directory and the network answer is the  *)
(* environment's choice, passed to each step as env.                       *)
(***************************************************************************)
\* u.Scheme of url.Parse(addr).
URLScheme(url) ==
    CASE url = "ldap://ldap.example.org" -> "ldap"
      [] url = "ldaps://ldap.example.org" -> "ldaps"
      [] OTHER -> ""

\* What dialing and the TLS negotiation may answer.  The negotiation may
\* fail because the server refuses the StartTLS request or because the
\* handshake fails; conn.StartTLS closes the connection on the latter only.
ConnectEnvs == [dial : {"ok", "fail"}, tls : {"ok", "refused", "handshake"}]

\* Connect: conn is the connection handed to the caller ("open" or "none"),
\* err the error, socket the state of the socket that was dialed.
Connect(url, startTLS, env) ==
    LET scheme == URLScheme(url)
        failed(err, socket) == [conn |-> "none", err |-> err, socket |-> socket]
    IN IF scheme = "ldap" /\ startTLS
       THEN IF env.dial = "fail" THEN failed("dial error", "none")
            ELSE IF env.tls = "refused" THEN failed("starttls error", "open")
            ELSE IF env.tls = "handshake" THEN failed("starttls error", "closed")
            ELSE [conn |-> "open", err |-> "", socket |-> "open"]
       ELSE IF scheme = "ldaps"
       THEN IF env.dial = "fail" \/ env.tls # "ok" THEN failed("dial error", "none")
            ELSE [conn |-> "open", err |-> "", socket |-> "open"]
       ELSE IF env.dial = "fail" THEN failed("dial error", "none")
            ELSE [conn |-> "open", err |-> "", socket |-> "open"]

\* ParseSearchFilter: the filter template executed against the shared
\* config; {{.Username}} renders config.Username as it reads at that moment.
\* (The usernames of the model hold no character the template escapes and
\* the configured filter needs no trimming.)
ParseSearchFilter(config) ==
    IF config.SearchFilter = SearchFilterTemplate
    THEN "(uid=" \o HeaderText(config.Username) \o ")"
    ELSE config.SearchFilter

\* What the directory may answer to the steps of LdapCheckUser: the bind of
\* the search account, the user search, the bind of the user.
UserEnvs == [svcBind : {"ok", "fail"}, search : {"ok", "err"}, userBind : {"ok", "err"}]

\* Variant: the first of several entries is taken.
SearchCountErrorPickFirst(n) ==
    IF n >= 1 THEN "" ELSE "search filter return empty result"

\* The switch at the end of SearchMode: the error for a result of n entries.
SearchCountError(n) ==
    IF n = 1 THEN ""
    ELSE IF n < 1 THEN "search filter return empty result"
    ELSE "search filter return multiple entries"

\* SearchMode: result is the entries returned to the caller (<<>> for nil),
\* found the number of entries the search returned (-1: none returned),
\* direrrs the directory operations that answered with an error.
SearchMode(config, env) ==
    LET withBindDN == config.BindDN # "" /\ config.BindPassword # ""
        bindOps == IF withBindDN THEN {"svcbind"} ELSE {"anonbind"}
        filter == ParseSearchFilter(config)
        entries == DirSearchUser(filter)
        \* _ = conn.UnauthenticatedBind(""): its error is dropped
        anonErr == IF ~withBindDN /\ env.svcBind = "fail" THEN {"anonbind"} ELSE {}
    IN IF withBindDN /\ env.svcBind = "fail"
       THEN [result |-> <<>>, err |-> "BindDN Error", ops |-> bindOps,
             filter |-> "", found |-> -1, direrrs |-> {"svcbind"}]
       ELSE IF env.search = "err"
       THEN [result |-> <<>>, err |-> "search error", ops |-> bindOps \cup {"search"},
             filter |-> filter, found |-> -1, direrrs |-> anonErr \cup {"search"}]
       ELSE [result |-> IF SearchCountError(Len(entries)) = "" THEN entries ELSE <<>>,
             err |-> SearchCountError(Len(entries)),
             ops |-> bindOps \cup {"search"},
             filter |-> filter, found |-> Len(entries), direrrs |-> anonErr]

\* conn.Bind(userDN, password): the error ("" for nil).
UserBind(dn, password, env) ==
    IF env.userBind = "err" THEN "bind: network error"
    ELSE IF DirBindAccepts(dn, password) THEN ""
    ELSE "bind: invalid credentials"

\* LdapCheckUser: (valid, entry, err), with what it did on the directory:
\* ops, the rendered filter, the number of entries found, the DN it bound
\* with the user's password ("" if none), and the directory operations that
\* answered with an error.
LdapCheckUser(config, username, password, env) ==
    IF config.SearchFilter = ""
    THEN LET userDN == BindModeDN(config.Attribute, username, config.BaseDN)
             err == UserBind(userDN, password, env)
         IN [valid |-> err = "", entry |-> [dn |-> userDN, uid |-> ""],
             err |-> err, ops |-> {"userbind"}, filter |-> "", found |-> -1,
             bound |-> userDN,
             direrrs |-> IF err = "" THEN {} ELSE {"userbind"}]
    ELSE LET sm == SearchMode(config, env)
         IN IF sm.err # ""
            THEN [valid |-> FALSE, entry |-> NoEntry, err |-> sm.err, ops |-> sm.ops,
                  filter |-> sm.filter, found |-> sm.found, bound |-> "",
                  direrrs |-> sm.direrrs]
            ELSE LET userDN == sm.result[1].dn
                     err == UserBind(userDN, password, env)
                 IN [valid |-> err = "", entry |-> EntryOf(sm.result[1]), err |-> err,
                     ops |-> sm.ops \cup {"userbind"}, filter |-> sm.filter,
                     found |-> sm.found, bound |-> userDN,
                     direrrs |-> sm.direrrs \cup (IF err = "" THEN {} ELSE {"userbind"})]

\* Variant: the AllowedUsers entry is compared as configured.
LdapCheckAllowedUsersAsConfigured(config, entry, username) ==
    \E i \in 1..Len(config.AllowedUsers) :
        LET allowedUser == config.AllowedUsers[i]
        IN allowedUser = username \/ allowedUser = ToLower(entry.dn)

\* LdapCheckAllowedUsers: whether an AllowedUsers entry, lower-cased, is the
\* username or the lower-cased DN of the entry.
LdapCheckAllowedUsers(config, entry, username) ==
    \E i \in 1..Len(config.AllowedUsers) :
        LET lowerAllowedUser == ToLower(config.AllowedUsers[i])
        IN lowerAllowedUser = username \/ lowerAllowedUser = ToLower(entry.dn)

\* What conn.Search may answer for one group: "ok" (the result, no error),
\* "err" (an empty result and an error), "partial" (the entries read so far
\* and an error), "nil" (no result and an error: the request was not sent).
GroupOutcomes == {"ok", "err", "partial", "nil"}

GroupEnvs(config) == [1..Len(config.AllowedGroups) -> GroupOutcomes]

GroupSearchError(g) == "group search error: " \o g

\* Variant: a group that returns an entry sets found and the loop goes on
\* to the groups after it.
RECURSIVE GroupLoopNoBreak(_, _, _, _, _, _)
GroupLoopNoBreak(groups, i, entry, username, genv, err) ==
    IF i > Len(groups)
    THEN [found |-> FALSE, err |-> err, panic |-> FALSE, queried |-> Len(groups),
          searched |-> <<>>]
    ELSE LET g == groups[i]
             newErr == IF genv[i] = "ok" THEN "" ELSE GroupSearchError(g)
             entries == IF genv[i] \in {"ok", "partial"}
                           /\ DirGroupMatches(g, entry.dn, username)
                        THEN 1 ELSE 0
         IN IF genv[i] = "nil"
            THEN [found |-> FALSE, err |-> newErr, panic |-> TRUE, queried |-> i,
                  searched |-> <<g>>]
            ELSE LET rest == GroupLoopNoBreak(groups, i + 1, entry, username, genv, newErr)
                 IN [rest EXCEPT !.searched = <<g>> \o @,
                                 !.found = @ \/ entries > 0]

\* The loop of LdapCheckUserGroups from group i on, err being the error of
\* the search before it.  queried is the number of groups searched and
\* searched the groups conn.Search was called for, in the order of the
\* calls; panic is the nil dereference of len(result.Entries) on a nil
\* result.
RECURSIVE GroupLoop(_, _, _, _, _, _)
GroupLoop(groups, i, entry, username, genv, err) ==
    IF i > Len(groups)
    THEN [found |-> FALSE, err |-> err, panic |-> FALSE, queried |-> Len(groups),
          searched |-> <<>>]
    ELSE LET g == groups[i]
             newErr == IF genv[i] = "ok" THEN "" ELSE GroupSearchError(g)
             entries == IF genv[i] \in {"ok", "partial"}
                           /\ DirGroupMatches(g, entry.dn, username)
                        THEN 1 ELSE 0
         IN IF genv[i] = "nil"
            THEN [found |-> FALSE, err |-> newErr, panic |-> TRUE, queried |-> i,
                  searched |-> <<g>>]
            ELSE IF entries > 0
            THEN [found |-> TRUE, err |-> newErr, panic |-> FALSE, queried |-> i,
                  searched |-> <<g>>]
            ELSE LET rest == GroupLoop(groups, i + 1, entry, username, genv, newErr)
                 IN [rest EXCEPT !.searched = <<g>> \o @]

\* LdapCheckUserGroups: (found, err).
LdapCheckUserGroups(config, entry, username, genv) ==
    IF Len(config.AllowedGroups) = 0
    THEN [found |-> FALSE, err |-> "", panic |-> FALSE, queried |-> 0,
          searched |-> <<>>]
    ELSE GroupLoop(config.AllowedGroups, 1, entry, username, genv, "")

NotAllowedMessage == "does not match any allowed users nor allowed groups"

\* Variant: the allow-lists are consulted also when both are empty.
LdapCheckUserAuthorizedAlwaysChecks(config, entry, username, genv) ==
    IF LdapCheckAllowedUsers(config, entry, username)
    THEN [allowed |-> TRUE, err |-> <<>>, panic |-> FALSE, queried |-> 0,
          searched |-> <<>>]
    ELSE LET gr == LdapCheckUserGroups(config, entry, username, genv)
         IN [allowed |-> gr.found,
             err |-> IF gr.found THEN <<>> ELSE <<NotAllowedMessage>>,
             panic |-> gr.panic, queried |-> gr.queried, searched |-> gr.searched]

\* LdapCheckUserAuthorized: (allowed, err); err is the sequence of chained
\* messages, <<>> for nil.
LdapCheckUserAuthorized(config, entry, username, genv) ==
    IF Len(config.AllowedUsers) = 0 /\ Len(config.AllowedGroups) = 0
    THEN [allowed |-> TRUE, err |-> <<>>, panic |-> FALSE, queried |-> 0,
          searched |-> <<>>]
    ELSE IF LdapCheckAllowedUsers(config, entry, username)
    THEN [allowed |-> TRUE, err |-> <<>>, panic |-> FALSE, queried |-> 0,
          searched |-> <<>>]
    ELSE LET gr == LdapCheckUserGroups(config, entry, username, genv)
             grErr == IF gr.err = "" THEN <<>> ELSE <<gr.err>>
         IN IF gr.panic
            THEN [allowed |-> FALSE, err |-> grErr, panic |-> TRUE, queried |-> gr.queried,
                  searched |-> gr.searched]
            ELSE IF gr.found
            THEN [allowed |-> TRUE, err |-> grErr, panic |-> FALSE, queried |-> gr.queried,
                  searched |-> gr.searched]
            ELSE [allowed |-> FALSE, err |-> grErr \o <<NotAllowedMessage>>,
                  panic |-> FALSE, queried |-> gr.queried, searched |-> gr.searched]

(***************************************************************************)
(* The state.                                                              *)
(***************************************************************************)
VARIABLES
    config,   \* the *Config shared by the handlers of the instance
    issued,   \* the session cookies the instance has sent (session.Save)
    req,      \* per handler: the request it serves and ServeHTTP's locals
    nreq,     \* requests started
    call,     \* the request followed through LdapCheckUserAuthorized
    store,    \* the package-level session store (var store)
    plugins,  \* the configs of the plugin instances New has returned
    served    \* the last request served by one of several instances

\* The variables of the plugin instances that share the package.
instanceVars == <<store, plugins, served>>

vars == <<config, issued, req, nreq, call, store, plugins, served>>

\* A handler that serves no request.
IdleReq ==
    [ pc |-> "idle",
      header |-> NoHeader,        \* the Authorization header received
      username |-> "",            \* strings.ToLower of the Basic username
      password |-> "",
      ok |-> FALSE,               \* req.BasicAuth's ok
      values |-> EmptyValues,     \* session.Values
      conn |-> "none",            \* conn: none, open, closed
      socket |-> "none",          \* the socket Connect dialed: none, open, closed
      deferred |-> 0,             \* deferred conn.Close() calls registered
      closes |-> 0,               \* conn.Close() calls made
      ops |-> {},                 \* directory operations performed
      direrrs |-> {},             \* directory operations that returned an error
      isValidUser |-> FALSE,
      entry |-> NoEntry,
      filter |-> "",              \* the user filter searched with
      found |-> -1,               \* entries the user search returned
      bound |-> "",               \* the DN bound with the request's password
      isAuthorized |-> FALSE,
      panicked |-> FALSE,
      response |-> "none",        \* none, forward (next.ServeHTTP), 401
      reason |-> <<>>,            \* the error RequireAuth writes
      hasCookie |-> FALSE,        \* the request came with a session cookie
      authForwarded |-> FALSE,    \* the forwarded request has Authorization
      userHeader |-> "",          \* the ForwardUsernameHeader set on it
      extraDN |-> "",             \* Ldap-Extra-Attr-DN (and -CN) set on it
      connAtForward |-> "none",   \* conn when next.ServeHTTP was called
      written |-> NoCookie ]      \* the cookie session.Save sent

\* No request has been followed through LdapCheckUserAuthorized.
NoCall ==
    [ done |-> FALSE,
      header |-> NoHeader,        \* the Authorization header received
      username |-> "",            \* strings.ToLower of the Basic username
      entry |-> NoEntry,          \* the entry LdapCheckUser returned
      genv |-> <<>>,              \* what conn.Search answers for each group
      allowed |-> FALSE,          \* isAuthorized
      err |-> <<>>,               \* the error LdapCheckUserAuthorized returned
      panic |-> FALSE,
      searched |-> <<>>,          \* the groups searched, in order
      userHeader |-> "",          \* the ForwardUsernameHeader set on the request
      extraDN |-> "" ]            \* Ldap-Extra-Attr-DN (and -CN) set on it

\* No request has been served by one of several instances.
NoServed ==
    [ done |-> FALSE,
      instance |-> 0,             \* the instance that served it
      header |-> NoHeader,
      cookie |-> NoCookie,        \* the cookie it came with
      storeKey |-> "",            \* the key of the store it was decoded with
      storeMaxAge |-> 0,          \* the MaxAge of that store
      hit |-> FALSE,              \* forwarded on the session alone
      fresh |-> FALSE,            \* authenticated on the directory
      response |-> "none",
      written |-> NoCookie ]      \* the cookie session.Save sent

Init ==
    /\ config \in Configs
    /\ issued = {}
    /\ req = [h \in HandlerIds |-> IdleReq]
    /\ nreq = 0
    /\ call = NoCall
    /\ store = NewCookieStore(getSecret(DefaultCacheKeyLabel), config.CacheTimeout)
    /\ plugins = <<>>
    /\ served = NoServed

\* The session cookies a client may send: none, or any cookie the instance
\* has sent so far (also one sent with MaxAge < 0, which a browser drops).
Cookies == {NoCookie} \cup issued

(***************************************************************************)
(* ServeHTTP, cut where it touches state other handlers see.               *)
(***************************************************************************)
\* Where a handler's next step reads and writes only its own locals and its
\* own connection.  Such a step commutes with every step of the other
\* handlers, so it is taken before they move on: the interleavings left
\* are those of the steps that touch config, issued or the handler pool.
LocalPcs == {"connect", "authorize", "return", "done"}

Scheduled(h) == \A k \in HandlerIds : k # h => req[k].pc \notin LocalPcs

\* Variant: the caller does not return after RequireAuth and falls through
\* to next.ServeHTTP.
RequireAuthFallsThrough(r, err) ==
    [r EXCEPT !.response = "forward", !.reason = err, !.pc = "return"]

\* RequireAuth: the 401 response with the error as its reason.
RequireAuth(r, err) == [r EXCEPT !.response = "401", !.reason = err, !.pc = "return"]

\* Whether the request passed to next.ServeHTTP on a session hit carries
\* the Authorization header it came with.
SessionHitForwardsAuthorization(cfg, header) == header.basic

\* Whether the request passed to next.ServeHTTP after a fresh
\* authentication carries the Authorization header it came with.
FreshForwardsAuthorization(cfg, header) == cfg.ForwardAuthorization /\ header.basic

\* Variant: the gate does not look at Enabled.
GateAlwaysEnabled(cfg) == TRUE

\* if !la.config.Enabled
GateEnabled(cfg) == cfg.Enabled

\* Lines 236-238: the value of the ForwardUsernameHeader (and of
\* req.URL.User) set on the request, "" when it is not set.
ForwardedUsername(cfg, username) == IF cfg.ForwardUsername THEN username ELSE ""

\* Lines 236-245: the value of Ldap-Extra-Attr-DN set on the request, ""
\* when it is not set; Ldap-Extra-Attr-CN is set in the same branch.
ExtraLdapHeaderDN(cfg, entry) ==
    IF cfg.ForwardUsername
    THEN IF cfg.ForwardExtraLdapHeaders /\ cfg.SearchFilter # "" THEN entry.dn ELSE ""
    ELSE ""

\* The cookies a client may hold that this run of the gate did not send: a
\* disabled gate sends none, and a client may hold one from a time the
\* gate was enabled.
StaleCookies(cfg) ==
    IF cfg.Enabled THEN {} ELSE {SignedCookie(TRUE, "alice", cfg.CacheTimeout)}

\* Variant: the mismatch expires the cookie and leaves authenticated as read.
InvalidatedSessionStillAuthenticated(username) == SignedCookie(TRUE, username, -1)

\* The session saved on a username mismatch.
InvalidatedSession(username) == SignedCookie(FALSE, username, -1)

\* Variant: the username saved is the one stashed in the shared config.
AuthenticatedSessionFromConfig(cfg, username) ==
    SignedCookie(TRUE, HeaderText(cfg.Username), cfg.CacheTimeout)

\* The session saved after a fresh authentication; MaxAge is the store's.
AuthenticatedSession(cfg, username) == SignedCookie(TRUE, username, cfg.CacheTimeout)

\* Lines 153-168: the disabled gate passes the request on; the enabled gate
\* reads the session and the credentials and begins the store of
\* la.config.Username (its data pointer).  A new request takes the lowest
\* idle handler.
Start(h) ==
    /\ req[h].pc = "idle"
    /\ Scheduled(h)
    /\ nreq < MaxRequests
    /\ \A k \in HandlerIds : k < h => req[k].pc # "idle"
    /\ \E header \in Headers, cookie \in Cookies \cup StaleCookies(config) :
          LET ba == BasicAuth(header)
              username == ToLower(ba.username)
              r == [req[h] EXCEPT !.header = header,
                                  !.hasCookie = cookie.kind # "none"]
          IN IF ~GateEnabled(config)
             THEN /\ req' = [req EXCEPT ![h] =
                        [r EXCEPT !.response = "forward",
                                  !.authForwarded = header.basic,
                                  !.pc = "return"]]
                  /\ config' = config
             ELSE /\ req' = [req EXCEPT ![h] =
                        [r EXCEPT !.values = StoreGet(cookie),
                                  !.username = username,
                                  !.password = ba.password,
                                  !.ok = ba.ok,
                                  !.pc = "store"]]
                  /\ config' = [config EXCEPT !.Username.ptr = username]
    /\ nreq' = nreq + 1
    /\ UNCHANGED <<issued, call, instanceVars>>

\* Lines 168-192: the store of la.config.Username completes (its length),
\* then the credentials and the session decide: deny, pass on a session
\* hit, invalidate on a mismatch, or go on to the directory.
CheckSession(h) ==
    /\ req[h].pc = "store"
    /\ Scheduled(h)
    /\ config' = [config EXCEPT !.Username.len = Len(req[h].username)]
    /\ LET r == req[h]
       IN IF ~r.ok
          THEN /\ req' = [req EXCEPT ![h] =
                     RequireAuth(r, <<"no valid 'Authorization: Basic xxxx' header found in request">>)]
               /\ UNCHANGED issued
          ELSE IF SessionAuthenticated(r.values)
          THEN IF SessionUserMatches(r.values, r.username)
               THEN /\ req' = [req EXCEPT ![h] =
                          [r EXCEPT !.response = "forward",
                                    !.authForwarded =
                                        SessionHitForwardsAuthorization(config, r.header),
                                    !.pc = "return"]]
                    /\ UNCHANGED issued
               ELSE /\ req' = [req EXCEPT ![h] =
                          RequireAuth([r EXCEPT !.written = InvalidatedSession(r.username)],
                                      <<"Session user != Auth user. Please, reauthenticate">>)]
                    /\ issued' = issued \cup {InvalidatedSession(r.username)}
          ELSE /\ req' = [req EXCEPT ![h].pc = "connect"]
               /\ UNCHANGED issued
    /\ UNCHANGED <<nreq, call, instanceVars>>

\* Lines 201-206: Connect; an error denies.
DoConnect(h) ==
    /\ req[h].pc = "connect"
    /\ Scheduled(h)
    /\ \E env \in ConnectEnvs :
          LET c == Connect(config.URL, config.StartTLS, env)
              r == [req[h] EXCEPT !.ops = @ \cup {"dial"}, !.socket = c.socket]
          IN req' = [req EXCEPT ![h] =
                IF c.err # ""
                THEN RequireAuth([r EXCEPT !.direrrs = @ \cup {"connect"}], <<c.err>>)
                ELSE [r EXCEPT !.conn = c.conn, !.pc = "checkuser"]]
    /\ UNCHANGED <<config, issued, nreq, call, instanceVars>>

\* Lines 208-216: LdapCheckUser; an invalid user defers conn.Close() and
\* denies.
DoCheckUser(h) ==
    /\ req[h].pc = "checkuser"
    /\ Scheduled(h)
    /\ \E env \in UserEnvs :
          LET cu == LdapCheckUser(config, req[h].username, req[h].password, env)
              r == [req[h] EXCEPT !.ops = @ \cup cu.ops,
                                  !.isValidUser = cu.valid,
                                  !.entry = cu.entry,
                                  !.filter = cu.filter,
                                  !.found = cu.found,
                                  !.bound = cu.bound,
                                  !.direrrs = @ \cup cu.direrrs]
          IN req' = [req EXCEPT ![h] =
                IF ~cu.valid
                THEN RequireAuth([r EXCEPT !.deferred = @ + 1], <<cu.err>>)
                ELSE [r EXCEPT !.pc = "authorize"]]
    /\ UNCHANGED <<config, issued, nreq, call, instanceVars>>

\* Lines 218-224: LdapCheckUserAuthorized; a denial defers conn.Close() and
\* denies.  A panic in it unwinds ServeHTTP with the deferred calls
\* registered so far (none) and no response written.
DoAuthorize(h) ==
    /\ req[h].pc = "authorize"
    /\ Scheduled(h)
    /\ \E genv \in GroupEnvs(config) :
          LET az == LdapCheckUserAuthorized(config, req[h].entry, req[h].username, genv)
              r == [req[h] EXCEPT !.ops = @ \cup (IF az.queried > 0 THEN {"groupsearch"} ELSE {}),
                                  !.isAuthorized = az.allowed,
                                  !.direrrs = @ \cup
                                      (IF \E i \in 1..az.queried : genv[i] # "ok"
                                       THEN {"groupsearch"} ELSE {})]
          IN req' = [req EXCEPT ![h] =
                IF az.panic
                THEN [r EXCEPT !.panicked = TRUE, !.pc = "return"]
                ELSE IF ~az.allowed
                THEN RequireAuth([r EXCEPT !.deferred = @ + 1], az.err)
                ELSE [r EXCEPT !.pc = "finish"]]
    /\ UNCHANGED <<config, issued, nreq, call, instanceVars>>

\* Lines 226-256: defer conn.Close(), save the authenticated session, set
\* the headers, call next.ServeHTTP.
Finish(h) ==
    /\ req[h].pc = "finish"
    /\ Scheduled(h)
    /\ LET r == req[h]
           session == AuthenticatedSession(config, r.username)
       IN /\ req' = [req EXCEPT ![h] =
                [r EXCEPT !.deferred = @ + 1,
                          !.written = session,
                          !.authForwarded = FreshForwardsAuthorization(config, r.header),
                          !.userHeader = ForwardedUsername(config, r.username),
                          !.extraDN = ExtraLdapHeaderDN(config, r.entry),
                          !.response = "forward",
                          !.connAtForward = r.conn,
                          !.pc = "return"]]
          /\ issued' = issued \cup {session}
    /\ UNCHANGED <<config, nreq, call, instanceVars>>

\* ServeHTTP returns (or unwinds): the deferred conn.Close() calls run.
Return(h) ==
    /\ req[h].pc = "return"
    /\ Scheduled(h)
    /\ req' = [req EXCEPT ![h] =
          [req[h] EXCEPT !.closes = @ + req[h].deferred,
                         !.conn = IF req[h].deferred > 0 THEN "closed" ELSE @,
                         !.socket = IF req[h].deferred > 0 THEN "closed" ELSE @,
                         !.deferred = 0,
                         !.pc = "done"]]
    /\ UNCHANGED <<config, issued, nreq, call, instanceVars>>

\* The handler's goroutine ends; the handler is free for the next request.
Recycle(h) ==
    /\ req[h].pc = "done"
    /\ Scheduled(h)
    /\ req' = [req EXCEPT ![h] = IdleReq]
    /\ UNCHANGED <<config, issued, nreq, call, instanceVars>>

Next ==
    \E h \in HandlerIds :
        \/ Start(h)
        \/ CheckSession(h)
        \/ DoConnect(h)
        \/ DoCheckUser(h)
        \/ DoAuthorize(h)
        \/ Finish(h)
        \/ Return(h)
        \/ Recycle(h)

Spec == Init /\ [][Next]_vars

(***************************************************************************)
(* The authorization step on its own: one request at a time, without a     *)
(* session, is taken from its credentials through LdapCheckUser to         *)
(* LdapCheckUserAuthorized, against deployments with longer allow-lists,   *)
(* and what LdapCheckUserAuthorized did is kept in call.                   *)
(***************************************************************************)
\* A group of the directory that has no member.
GroupOps == "cn=ops,dc=example,dc=org"

GroupStaff == "cn=staff,dc=example,dc=org"

GroupAdmins == "cn=admins,dc=example,dc=org"

\* Deployments: CreateConfig with the fields a deployment sets.
ConfigNoLists == [ConfigBindMode EXCEPT !.SearchFilter = SearchFilterTemplate]

ConfigThreeGroups ==
    [ConfigNoLists EXCEPT !.AllowedGroups = <<GroupOps, GroupStaff, GroupAdmins>>]

ConfigUserAndGroups ==
    [ConfigNoLists EXCEPT !.AllowedUsers = <<"eve", "ALICE">>,
                          !.AllowedGroups = <<GroupStaff, GroupOps>>]

ConfigUserDN ==
    [ConfigNoLists EXCEPT !.AllowedUsers = <<"CN=Alice,DC=Example,DC=Org">>,
                          !.AllowedGroups = <<GroupOps>>]

ConfigUsersOnly == [ConfigBindMode EXCEPT !.AllowedUsers = <<"bob">>]

ConfigExtraHeaders == [ConfigNoLists EXCEPT !.ForwardExtraLdapHeaders = TRUE]

ConfigExtraHeadersOnly ==
    [ConfigNoLists EXCEPT !.ForwardExtraLdapHeaders = TRUE, !.ForwardUsername = FALSE]

ConfigExtraHeadersBindMode == [ConfigBindMode EXCEPT !.ForwardExtraLdapHeaders = TRUE]

AuthorizeConfigs ==
    {ConfigBindMode, ConfigNoLists, ConfigThreeGroups, ConfigUserAndGroups,
     ConfigUserDN, ConfigUsersOnly, ConfigExtraHeaders, ConfigExtraHeadersOnly,
     ConfigExtraHeadersBindMode}

\* The credentials of the requests followed: the usernames of the directory
\* in several letter cases, each with its password.
AuthorizeHeaders ==
    { [basic |-> TRUE, user |-> u, pass |-> "pa"] : u \in {"alice", "Alice", "ALICE"} }
    \cup { [basic |-> TRUE, user |-> u, pass |-> "pb"] : u \in {"bob", "Bob", "BOB"} }

AuthorizeInit ==
    /\ config \in AuthorizeConfigs
    /\ issued = {}
    /\ req = [h \in HandlerIds |-> IdleReq]
    /\ nreq = 0
    /\ call = NoCall
    /\ store = NewCookieStore(getSecret(DefaultCacheKeyLabel), config.CacheTimeout)
    /\ plugins = <<>>
    /\ served = NoServed

\* Lines 165-168, 208, 218 and 236-246 for one request: the username is
\* lower-cased and stored in the config, LdapCheckUser finds the user valid,
\* LdapCheckUserAuthorized is called with the entry it returned, and the
\* headers of an authorized request are set.
AuthorizeRequest ==
    /\ ~call.done
    /\ \E header \in AuthorizeHeaders, env \in UserEnvs :
        LET ba == BasicAuth(header)
            username == ToLower(ba.username)
            cfg == [config EXCEPT !.Username = StringHeader(username)]
            cu == LdapCheckUser(cfg, username, ba.password, env)
        IN /\ cu.valid
           /\ config' = cfg
           /\ \E genv \in GroupEnvs(cfg) :
                 LET az == LdapCheckUserAuthorized(cfg, cu.entry, username, genv)
                 IN call' = [ done |-> TRUE,
                              header |-> header,
                              username |-> username,
                              entry |-> cu.entry,
                              genv |-> genv,
                              allowed |-> az.allowed,
                              err |-> az.err,
                              panic |-> az.panic,
                              searched |-> az.searched,
                              userHeader |->
                                  IF az.allowed /\ ~az.panic
                                  THEN ForwardedUsername(cfg, username) ELSE "",
                              extraDN |->
                                  IF az.allowed /\ ~az.panic
                                  THEN ExtraLdapHeaderDN(cfg, cu.entry) ELSE "" ]
           /\ UNCHANGED <<issued, req, nreq, instanceVars>>

\* The request is over; the next one finds the config as this one left it.
AuthorizeReturn ==
    /\ call.done
    /\ call' = NoCall
    /\ UNCHANGED <<config, issued, req, nreq, instanceVars>>

AuthorizeNext == AuthorizeRequest \/ AuthorizeReturn

SpecAuthorize == AuthorizeInit /\ [][AuthorizeNext]_vars

(***************************************************************************)
(* Several plugin instances in one package: New is called for each, and    *)
(* each serves requests, one at a time, with the package-level store.  The *)
(* instances differ in their cache settings; their directory settings are  *)
(* those of ConfigBindMode and the directory answers without error.        *)
(***************************************************************************)
\* The directory answers every step of LdapCheckUser.
OkUserEnv == [svcBind |-> "ok", search |-> "ok", userBind |-> "ok"]

InstanceHeaders ==
    { NoHeader,
      [basic |-> TRUE, user |-> "Alice", pass |-> "pa"],
      [basic |-> TRUE, user |-> "alice", pass |-> "pb"],
      [basic |-> TRUE, user |-> "bob", pass |-> "pb"] }

InstancesInit ==
    /\ config = ConfigBindMode
    /\ issued = {}
    /\ req = [h \in HandlerIds |-> IdleReq]
    /\ nreq = 0
    /\ call = NoCall
    /\ store = NoStore
    /\ plugins = <<>>
    /\ served = NoServed

\* New(ctx, next, config, name): the package-level store is assigned and
\* the instance keeps its config.
NewInstance ==
    /\ Len(plugins) < MaxInstances
    /\ \E cfg \in PluginConfigs :
          /\ store' = New(cfg).store
          /\ plugins' = Append(plugins, New(cfg).config)
    /\ UNCHANGED <<config, issued, req, nreq, call, served>>

\* ServeHTTP of an instance i for one request (lines 153-257): the session is
\* read with the package-level store, the username is stored in the
\* instance's config, and the credentials and the session decide; a cookie
\* is sent on a mismatch and after a fresh authentication.
ServeInstance ==
    /\ nreq < MaxServed
    /\ \E i \in 1..Len(plugins), header \in InstanceHeaders,
          cookie \in {NoCookie} \cup issued \cup TamperedCookies :
          LET ba == BasicAuth(header)
              username == ToLower(ba.username)
              values == StoreValues(store, cookie)
              cu == LdapCheckUser(config, username, ba.password, OkUserEnv)
              az == LdapCheckUserAuthorized(config, cu.entry, username, <<>>)
              auth == ba.ok /\ SessionAuthenticated(values)
              hit == auth /\ SessionUserMatches(values, username)
              fresh == ba.ok /\ ~auth /\ cu.valid /\ az.allowed
              written ==
                  IF auth /\ ~hit THEN StoreSave(store, FALSE, username, -1)
                  ELSE IF fresh THEN StoreSave(store, TRUE, username, store.maxAge)
                  ELSE NoCookie
          IN /\ served' = [ done |-> TRUE,
                            instance |-> i,
                            header |-> header,
                            cookie |-> cookie,
                            storeKey |-> store.key,
                            storeMaxAge |-> store.maxAge,
                            hit |-> hit,
                            fresh |-> fresh,
                            response |-> IF hit \/ fresh THEN "forward" ELSE "401",
                            written |-> written ]
             /\ issued' = issued \cup (IF written.kind = "signed" THEN {written} ELSE {})
             /\ plugins' = [plugins EXCEPT ![i].Username = username]
    /\ nreq' = nreq + 1
    /\ UNCHANGED <<config, req, call, store>>

InstancesNext ==
    \/ NewInstance
    \/ ServeInstance

SpecInstances == InstancesInit /\ [][InstancesNext]_vars

(***************************************************************************)
(* Vocabulary of the properties.                                           *)
(***************************************************************************)
\* next.ServeHTTP was called for the request handler h serves.
Forwarded(h) == req[h].response = "forward"

\* ServeHTTP has got past the session check of the request.
PastSession(h) == req[h].pc \notin {"idle", "store"}

\* ServeHTTP has returned (or unwound).
Returned(h) == req[h].pc = "done"

\* The request carries a session proof with authenticated = true.
HasProof(h) == req[h].values.set /\ req[h].values.authenticated

\* The proof's username is the request's username, lower-cased.
ProofMatches(h) == req[h].values.username = ToLower(req[h].header.user)

\* Connect, LdapCheckUser and LdapCheckUserAuthorized all succeeded.
FreshSuccess(h) ==
    /\ req[h].conn # "none"
    /\ req[h].isValidUser
    /\ req[h].isAuthorized

\* The request performed no directory operation and opened no connection.
NoDirectory(h) ==
    /\ req[h].ops = {}
    /\ req[h].conn = "none"
    /\ req[h].socket = "none"

(***************************************************************************)
(* C1.  Fail closed.                                                       *)
(***************************************************************************)
\* C1 as stated: with the gate enabled, next is called only on a session hit
\* or after Connect, LdapCheckUser and LdapCheckUserAuthorized all succeeded
\* in the request; and after ANY directory error (any directory operation of
\* the request that answered with an error), a bind failure, an empty or
\* ambiguous search result or an authorization denial next is never called.
C1_FailClosedAnyDirectoryError ==
    \A h \in HandlerIds :
        config.Enabled =>
            /\ Forwarded(h) =>
                  \/ (req[h].header.basic /\ HasProof(h) /\ ProofMatches(h))
                  \/ FreshSuccess(h)
            /\ ( \/ req[h].direrrs # {}
                 \/ req[h].found = 0
                 \/ req[h].found >= 2
                 \/ req[h].reason # <<>> ) => ~Forwarded(h)

\* C1 as amended: with the gate enabled, next is called only on a session
\* hit or after Connect, LdapCheckUser and LdapCheckUserAuthorized all
\* succeeded in the request; and after an error of Connect, of the bind of
\* the configured BindDN, of the user search or of the bind of the user, an
\* empty or ambiguous search result, or an authorization denial (any 401)
\* next is never called.  (An error of the anonymous bind is dropped and an
\* error of a group search does not deny when a group matches.)
C1_FailClosed ==
    \A h \in HandlerIds :
        config.Enabled =>
            /\ Forwarded(h) =>
                  \/ (req[h].header.basic /\ HasProof(h) /\ ProofMatches(h))
                  \/ FreshSuccess(h)
            /\ ( \/ req[h].direrrs \cap {"connect", "svcbind", "search", "userbind"} # {}
                 \/ req[h].found = 0
                 \/ req[h].found >= 2
                 \/ req[h].reason # <<>> ) => ~Forwarded(h)

\* A request was forwarded after a fresh authentication that was authorized
\* by a group search.
C1_Witness ==
    \E h \in HandlerIds :
        /\ config.Enabled
        /\ Returned(h)
        /\ Forwarded(h)
        /\ ~HasProof(h)
        /\ FreshSuccess(h)
        /\ "groupsearch" \in req[h].ops

(***************************************************************************)
(* C2.  The search filter of a request.                                    *)
(***************************************************************************)
\* C2: in search mode the filter a request searches with is rendered from
\* that request's own username, and the entry it binds with its password is
\* the entry of that username.
C2_FilterOfOwnUsername ==
    \A h \in HandlerIds :
        (config.SearchFilter # "" /\ req[h].filter # "") =>
            /\ req[h].filter = "(uid=" \o req[h].username \o ")"
            /\ req[h].bound # "" => req[h].entry.uid = req[h].username

(***************************************************************************)
(* C3.  The shared configuration.                                          *)
(***************************************************************************)
\* C3: handling a request never changes the shared Config: whenever every
\* ServeHTTP that was started has returned, every field of the Config has
\* the value it had after construction, before any request started.
C3_ConfigNeverChanges ==
    (\A h \in HandlerIds : req[h].pc \in {"idle", "done"}) => config \in Configs

(***************************************************************************)
(* C4.  Session hit.                                                       *)
(***************************************************************************)
\* C4: with the gate enabled, a request with Basic credentials and a proof
\* with authenticated = true whose username is the request's lower-cased
\* username is forwarded, and no connection is opened and no directory
\* operation is performed for it, whatever its password.
C4_SessionHitSkipsDirectory ==
    \A h \in HandlerIds :
        ( /\ config.Enabled
          /\ PastSession(h)
          /\ req[h].header.basic
          /\ HasProof(h)
          /\ ProofMatches(h) ) => (Forwarded(h) /\ NoDirectory(h))

\* A session hit of a request whose password the directory would reject.
C4_Witness ==
    \E h \in HandlerIds :
        /\ config.Enabled
        /\ Returned(h)
        /\ req[h].header.basic
        /\ HasProof(h)
        /\ ProofMatches(h)
        /\ Forwarded(h)
        /\ \A i \in 1..Len(DirEntries) :
              DirEntries[i].uid = req[h].username => DirEntries[i].pw # req[h].header.pass

(***************************************************************************)
(* C5.  Session mismatch.                                                  *)
(***************************************************************************)
\* C5: with the gate enabled, a request whose proof has authenticated = true
\* and another username than the request's is denied with 401 citing the
\* mismatch, without any directory operation, and the session is rewritten
\* with authenticated = false and MaxAge < 0; a request that presents such
\* an invalidated proof is forwarded only after a fresh directory
\* authentication (it is never a session hit).
C5_MismatchInvalidates ==
    \A h \in HandlerIds :
        config.Enabled =>
            /\ ( /\ PastSession(h)
                 /\ req[h].header.basic
                 /\ HasProof(h)
                 /\ ~ProofMatches(h) ) =>
                    /\ req[h].response = "401"
                    /\ req[h].reason = <<"Session user != Auth user. Please, reauthenticate">>
                    /\ NoDirectory(h)
                    /\ req[h].written.kind = "signed"
                    /\ ~req[h].written.authenticated
                    /\ req[h].written.maxAge < 0
                    /\ req[h].written \in issued
            /\ ( /\ req[h].values.set
                 /\ ~req[h].values.authenticated
                 /\ Forwarded(h) ) =>
                    /\ FreshSuccess(h)
                    /\ "userbind" \in req[h].ops
            /\ \A c \in issued : c.maxAge < 0 => ~c.authenticated

\* A request that presented an invalidated proof and was forwarded after a
\* fresh authentication.
C5_Witness ==
    \E h \in HandlerIds :
        /\ config.Enabled
        /\ Returned(h)
        /\ req[h].values.set
        /\ ~req[h].values.authenticated
        /\ Forwarded(h)

(***************************************************************************)
(* C6.  Search mode: the number of entries found.                          *)
(***************************************************************************)
\* C6: in search mode, when the search returned exactly one entry the DN of
\* that entry is bound with the request's password and valid is whether
\* that bind succeeded; when it returned zero or at least two entries valid
\* is false, there is an error, and no user entry is bound.
C6_ExactlyOneEntry ==
    \A h \in HandlerIds :
        (config.SearchFilter # "" /\ req[h].pc \notin {"idle", "store", "connect", "checkuser"}) =>
            /\ req[h].found = 1 =>
                  /\ req[h].bound = DirSearchUser(req[h].filter)[1].dn
                  /\ req[h].entry.dn = req[h].bound
                  /\ "userbind" \in req[h].ops
                  /\ req[h].isValidUser <=>
                        ( /\ DirBindAccepts(req[h].bound, req[h].password)
                          /\ "userbind" \notin req[h].direrrs )
            /\ (req[h].found = 0 \/ req[h].found >= 2) =>
                  /\ ~req[h].isValidUser
                  /\ req[h].response = "401"
                  /\ req[h].reason = <<SearchCountError(req[h].found)>>
                  /\ req[h].bound = ""
                  /\ "userbind" \notin req[h].ops

\* One request was denied for two entries found while another found one
\* entry and bound it successfully.
C6_Witness ==
    \E h, k \in HandlerIds :
        /\ config.SearchFilter # ""
        /\ Returned(h)
        /\ req[h].found = 2
        /\ req[k].pc = "finish"
        /\ req[k].found = 1
        /\ req[k].isValidUser

(***************************************************************************)
(* C7.  The directory connection is released.                              *)
(***************************************************************************)
\* C7: every connection Connect returned to a request has been closed
\* exactly once when ServeHTTP has returned or unwound, on every path.
C7_ConnectionClosedOnce ==
    \A h \in HandlerIds :
        /\ req[h].closes <= 1
        /\ (Returned(h) /\ req[h].conn # "none") =>
              (req[h].conn = "closed" /\ req[h].closes = 1)

(***************************************************************************)
(* C8.  The Authorization header of a forwarded request.                   *)
(***************************************************************************)
\* C8: with the gate enabled and ForwardAuthorization off, no forwarded
\* request carries the Authorization header, on a session hit as after a
\* fresh authentication.
C8_AuthorizationRemoved ==
    \A h \in HandlerIds :
        (config.Enabled /\ ~config.ForwardAuthorization /\ Forwarded(h)) =>
            ~req[h].authForwarded

C10_NoCredentialsTouchNothing ==
    [][\A h \in HandlerIds :
          ( /\ config.Enabled
            /\ req'[h] # req[h]
            /\ req'[h].pc # "idle"
            /\ ~req'[h].header.basic ) =>
                /\ config' = config
                /\ issued' = issued
                /\ req'[h].ops = {}
                /\ req'[h].conn = "none"
                /\ req'[h].written = NoCookie
                /\ req'[h].response # "forward"
                /\ req'[h].pc \in {"return", "done"} => req'[h].response = "401"]_vars

(***************************************************************************)
(* Vocabulary of the properties of the authorization step.                 *)
(***************************************************************************)
\* conn.Search was called for at least one group.
GroupCheckRan == call.done /\ call.searched # <<>>

\* The i-th search of the group check returned an error.
GroupSearchFailed(i) == call.genv[i] # "ok"

\* The i-th search of the group check returned at least one entry.
GroupSearchMatched(i) ==
    /\ call.genv[i] \in {"ok", "partial"}
    /\ DirGroupMatches(config.AllowedGroups[i], call.entry.dn, call.username)

\* The groups searched are the first configured groups, in their order.
SearchedInOrder ==
    /\ Len(call.searched) <= Len(config.AllowedGroups)
    /\ call.searched = SubSeq(config.AllowedGroups, 1, Len(call.searched))

(***************************************************************************)
(* C11.  A group search error does not end the group check.                *)
(***************************************************************************)
\* C11: when the search of one allowed group returned an error, the group
\* check goes on: the groups are searched in the configured order up to the
\* first group that returns an entry or to the last group, the check does
\* not end at the failed search, and when a group returns an entry
\* authorization is granted.
C11_GroupErrorDoesNotEndCheck ==
    (GroupCheckRan /\ \E i \in 1..Len(call.searched) : GroupSearchFailed(i)) =>
        LET n == Len(call.searched)
        IN /\ SearchedInOrder
           /\ n = Len(config.AllowedGroups) \/ GroupSearchMatched(n)
           /\ GroupSearchMatched(n) => call.allowed

(***************************************************************************)
(* C12.  The error of an authorization denial.                             *)
(***************************************************************************)
\* The messages chained in an error.
Messages(err) == {err[i] : i \in 1..Len(err)}

\* LdapCheckUserAuthorized returned: not allowed, with an error.
AuthorizationDenied == call.done /\ ~call.allowed /\ ~call.panic

\* C12: the error of an authorization denial holds the 'does not match any
\* allowed users nor allowed groups' message and, when at least one group
\* search of the check failed, the error of the last search that failed,
\* whether or not the searches after it returned without error.
C12_DenialKeepsLastSearchError ==
    AuthorizationDenied =>
        /\ NotAllowedMessage \in Messages(call.err)
        /\ \A i \in 1..Len(call.searched) :
              ( /\ GroupSearchFailed(i)
                /\ \A j \in (i + 1)..Len(call.searched) : ~GroupSearchFailed(j) ) =>
                    GroupSearchError(call.searched[i]) \in Messages(call.err)

(***************************************************************************)
(* C13.  The group check stops at the first group that matches.            *)
(***************************************************************************)
\* C13: the groups are searched in the configured order; when the search
\* of a group returns an entry, that search is the last one of the check
\* (no group after it is searched) and authorization is granted; and the
\* check does not stop before a group returns an entry.
C13_StopsAtFirstMatch ==
    GroupCheckRan =>
        /\ SearchedInOrder
        /\ \A i \in 1..Len(call.searched) :
              GroupSearchMatched(i) => (i = Len(call.searched) /\ call.allowed)
        /\ (~call.panic /\ ~GroupSearchMatched(Len(call.searched))) =>
              Len(call.searched) = Len(config.AllowedGroups)

\* The second of three groups returned an entry: two groups were searched
\* and authorization was granted.
C13_Witness ==
    /\ GroupCheckRan
    /\ Len(config.AllowedGroups) = 3
    /\ Len(call.searched) = 2
    /\ GroupSearchMatched(2)
    /\ call.allowed

(***************************************************************************)
(* C14.  Every request is answered.                                        *)
(***************************************************************************)
\* C14: with the gate enabled, when ServeHTTP is over the request was
\* either forwarded or denied with 401 and a non-empty reason, whatever the
\* directory answered; ServeHTTP did not panic and did not end without a
\* response.
C14_ForwardOrDenial ==
    \A h \in HandlerIds :
        (config.Enabled /\ Returned(h)) =>
            /\ ~req[h].panicked
            /\ \/ req[h].response = "forward" /\ req[h].reason = <<>>
               \/ /\ req[h].response = "401"
                  /\ req[h].reason # <<>>
                  /\ \A i \in 1..Len(req[h].reason) : req[h].reason[i] # ""

(***************************************************************************)
(* C15.  The session store of an instance.                                 *)
(***************************************************************************)
\* C15: the store an instance reads and signs cookies with is the one built
\* from that instance's own key and options, whatever instances were
\* constructed after it: a request an instance serves is decoded with the
\* instance's key, the store has the instance's MaxAge, and a cookie is a
\* session hit only when it was signed with the instance's key.
C15_StoreOfInstance ==
    served.done =>
        LET own == plugins[served.instance]
        IN /\ served.storeKey = own.CacheKey
           /\ served.storeMaxAge = own.CacheTimeout
           /\ served.hit => served.cookie.key = own.CacheKey

(***************************************************************************)
(* C16.  A cookie that does not decode.                                    *)
(***************************************************************************)
\* The store the last request was served with.
ServedStore == NewCookieStore(served.storeKey, served.storeMaxAge)

\* The request came with a cookie the store does not decode: its value was
\* altered or made up, or it was signed with another key.
CookieFailsToDecode ==
    /\ served.done
    /\ served.cookie.kind # "none"
    /\ ~StoreVerifies(ServedStore, served.cookie)

\* C16: a request whose cookie does not decode is never a session hit: it
\* is forwarded only after a fresh authentication, and with credentials it
\* is forwarded exactly when the directory accepts them.
C16_UndecodableCookieIsMiss ==
    CookieFailsToDecode =>
        /\ ~served.hit
        /\ served.response = "forward" => served.fresh
        /\ served.header.basic =>
              ( served.response = "forward" <=>
                  DirBindAccepts(BindModeDN(config.Attribute, ToLower(served.header.user),
                                            config.BaseDN),
                                 served.header.pass) )

\* A tampered cookie that names the request's user as authenticated came
\* with a password the directory rejects, and the request was denied.
C16_Witness ==
    /\ served.done
    /\ served.cookie.kind = "tampered"
    /\ served.cookie.authenticated
    /\ served.cookie.username = ToLower(served.header.user)
    /\ served.storeKey # ""
    /\ served.response = "401"

(***************************************************************************)
(* C17.  The user allow-list.                                              *)
(***************************************************************************)
\* An AllowedUsers entry, lower-cased, is the lower-cased username of the
\* request as typed or the lower-cased DN of the authenticated entry.
AllowedUserMatches ==
    \E i \in 1..Len(config.AllowedUsers) :
        \/ ToLower(config.AllowedUsers[i]) = ToLower(call.header.user)
        \/ ToLower(config.AllowedUsers[i]) = ToLower(call.entry.dn)

\* C17: with a non-empty allow-list, when an AllowedUsers entry matches the
\* username or the DN of the entry, whatever the letter case of the typed
\* username and of the configured entry, authorization is granted and no
\* group is searched; when none matches, authorization is decided by the
\* group check.
C17_AllowedUsersFirst ==
    ( /\ call.done
      /\ Len(config.AllowedUsers) > 0 \/ Len(config.AllowedGroups) > 0 ) =>
        /\ AllowedUserMatches =>
              /\ call.allowed
              /\ call.err = <<>>
              /\ call.searched = <<>>
        /\ (~AllowedUserMatches /\ Len(config.AllowedGroups) = 0) => ~call.allowed
        /\ (~AllowedUserMatches /\ Len(config.AllowedGroups) > 0) => call.searched # <<>>

\* A username typed with a capital matched an entry configured in
\* capitals, with groups configured: granted without a group search.
C17_Witness ==
    /\ call.done
    /\ call.header.user = "Alice"
    /\ \E i \in 1..Len(config.AllowedUsers) : config.AllowedUsers[i] = "ALICE"
    /\ Len(config.AllowedGroups) > 0
    /\ call.allowed
    /\ call.searched = <<>>

(***************************************************************************)
(* C18.  No allow-list.                                                    *)
(***************************************************************************)
\* C18: with AllowedUsers and AllowedGroups both empty, every request that
\* LdapCheckUser found valid is authorized, with no error and without a
\* group search, and is forwarded.
C18_NoListsAlwaysAuthorized ==
    \A h \in HandlerIds :
        ( /\ Len(config.AllowedUsers) = 0
          /\ Len(config.AllowedGroups) = 0
          /\ req[h].isValidUser
          /\ req[h].pc \in {"finish", "return", "done"} ) =>
              /\ req[h].isAuthorized
              /\ ~req[h].panicked
              /\ "groupsearch" \notin req[h].ops
              /\ req[h].response # "401"
              /\ Returned(h) => Forwarded(h)

\* A request authenticated in search mode without allow-lists was forwarded.
C18_Witness ==
    \E h \in HandlerIds :
        /\ Len(config.AllowedUsers) = 0
        /\ Len(config.AllowedGroups) = 0
        /\ config.SearchFilter # ""
        /\ Returned(h)
        /\ req[h].isValidUser
        /\ req[h].isAuthorized
        /\ Forwarded(h)

(***************************************************************************)
(* C19.  The disabled gate.                                                *)
(***************************************************************************)
\* C19: with the gate disabled every request is forwarded at once: the
\* session is not read and no cookie is sent, no connection is opened and
\* no directory operation is performed, the request is forwarded with the
\* headers it came with (Authorization kept, no username or LDAP header
\* set), and nothing is stored, with or without credentials or a cookie.
C19_DisabledGatePassesThrough ==
    ~config.Enabled =>
        /\ config = ConfigDisabled
        /\ issued = {}
        /\ \A h \in HandlerIds :
              req[h].pc # "idle" =>
                  /\ Forwarded(h)
                  /\ req[h].reason = <<>>
                  /\ NoDirectory(h)
                  /\ req[h].values = EmptyValues
                  /\ req[h].written = NoCookie
                  /\ req[h].authForwarded = req[h].header.basic
                  /\ req[h].userHeader = ""
                  /\ req[h].extraDN = ""

\* A request with credentials and a cookie passed the disabled gate.
C19_Witness ==
    \E h \in HandlerIds :
        /\ ~config.Enabled
        /\ Returned(h)
        /\ req[h].header.basic
        /\ req[h].hasCookie
        /\ Forwarded(h)
        /\ req[h].authForwarded

(***************************************************************************)
(* C20.  The extra LDAP headers.                                           *)
(***************************************************************************)
\* C20: after a fresh authentication that was authorized, the DN (and CN)
\* header of the entry is set on the forwarded request if and only if
\* ForwardExtraLdapHeaders is on and a search filter is configured, whether
\* ForwardUsername is on or off.
C20_ExtraHeadersIffSearchMode ==
    (call.done /\ call.allowed /\ ~call.panic) =>
        /\ call.extraDN # "" <=>
              (config.ForwardExtraLdapHeaders /\ config.SearchFilter # "")
        /\ call.extraDN # "" => call.extraDN = call.entry.dn

(***************************************************************************)
(* C21.  The connection when the request is forwarded.                     *)
(***************************************************************************)
\* C21: a request is forwarded after a fresh authentication only when
\* Connect, LdapCheckUser and LdapCheckUserAuthorized have succeeded in
\* that order, and the connection Connect returned is already closed when
\* next.ServeHTTP is called: no connection is open while next runs.
C21_ReleasedBeforeForward ==
    \A h \in HandlerIds :
        (config.Enabled /\ Forwarded(h) /\ req[h].conn # "none") =>
            /\ FreshSuccess(h)
            /\ req[h].connAtForward = "closed"

(***************************************************************************)
(* C22.  A failed Connect.                                                 *)
(***************************************************************************)
\* C22: when Connect returned an error the request is denied and no
\* connection is left open: the socket Connect dialed, if any, is closed,
\* also when the dial succeeded and the TLS upgrade failed.
C22_FailedConnectLeavesNothingOpen ==
    \A h \in HandlerIds :
        "connect" \in req[h].direrrs =>
            /\ req[h].response = "401"
            /\ req[h].conn = "none"
            /\ req[h].socket \in {"none", "closed"}

====
